---- MODULE Spec2Model ----
(***************************************************************************)
(* Sentiment Hub: CSV upload, per-row enrichment by an external classifier *)
(* and threshold grouping.  Two programs of the repository are modelled:   *)
(*   - the Gemini application (src/unnamed/part_001), specification Spec;  *)
(*   - the plain application (src/sentiment-hub/src/App.jsx), which shows  *)
(*     the CSV rows without enrichment, specification SpecApp.             *)
(* Numbers are kept in hundredths (0.1 is 10, 0.5 is 50), strings are      *)
(* sequences of one-character strings, objects are functions from keys.    *)
(* The purely presentational isDragging flag is left out of the state.     *)
(***************************************************************************)
EXTENDS Integers, Sequences, FiniteSets, TLC

\* ------------------------------------------------------------------------
\* Bounds of the model
\* ------------------------------------------------------------------------
\* rows of a file given to the Gemini application
MaxRows == 2
\* rows of a file given to the plain application
MaxAppRows == 3
\* handleFile calls running at the same time
MaxBatches == 2

\* ------------------------------------------------------------------------
\* JavaScript values
\* ------------------------------------------------------------------------
Undefined == [t |-> "undefined", n |-> 0, s |-> <<>>]
Null == [t |-> "null", n |-> 0, s |-> <<>>]
NaN == [t |-> "NaN", n |-> 0, s |-> <<>>]
Num(k) == [t |-> "number", n |-> k, s |-> <<>>]
Str(cs) == [t |-> "string", n |-> 0, s |-> cs]
Bool(b) == [t |-> "boolean", n |-> IF b THEN 1 ELSE 0, s |-> <<>>]
Arr(items) == [t |-> "array", n |-> 0, s |-> items]

\* JavaScript truthiness, as used by || and by if (!text)
Truthy(v) ==
  CASE v.t = "undefined" -> FALSE
    [] v.t = "null" -> FALSE
    [] v.t = "NaN" -> FALSE
    [] v.t = "number" -> v.n # 0
    [] v.t = "string" -> v.s # <<>>
    [] v.t = "boolean" -> v.n = 1
    [] OTHER -> TRUE

\* a || b
Or(a, b) == IF Truthy(a) THEN a ELSE b

IsSpace(c) == c \in {" ", "\t", "\n"}
IsDigit(c) == c \in {"0", "1", "2", "3", "4", "5", "6", "7", "8", "9"}
DigitVal(c) ==
  CASE c = "0" -> 0 [] c = "1" -> 1 [] c = "2" -> 2 [] c = "3" -> 3
    [] c = "4" -> 4 [] c = "5" -> 5 [] c = "6" -> 6 [] c = "7" -> 7
    [] c = "8" -> 8 [] c = "9" -> 9

RECURSIVE TrimLeft(_)
TrimLeft(cs) ==
  IF cs # <<>> /\ IsSpace(Head(cs)) THEN TrimLeft(Tail(cs)) ELSE cs

RECURSIVE TrimRight(_)
TrimRight(cs) ==
  IF cs # <<>> /\ IsSpace(cs[Len(cs)])
  THEN TrimRight(SubSeq(cs, 1, Len(cs) - 1))
  ELSE cs

TrimWs(cs) == TrimRight(TrimLeft(cs))

RECURSIVE DigitsValue(_)
DigitsValue(ds) ==
  IF ds = <<>> THEN 0
  ELSE 10 * DigitsValue(SubSeq(ds, 1, Len(ds) - 1)) + DigitVal(ds[Len(ds)])

AllDigits(ds) == \A i \in DOMAIN ds : IsDigit(ds[i])

\* The value in hundredths of an unsigned decimal literal; digits after the
\* second decimal place are below the resolution of the value grid.
UnsignedLiteral(cs) ==
  LET dots == {i \in DOMAIN cs : cs[i] = "."}
      dot == IF dots = {} THEN Len(cs) + 1 ELSE CHOOSE i \in dots : TRUE
      ip == SubSeq(cs, 1, dot - 1)
      fp == SubSeq(cs, dot + 1, Len(cs))
      f2 == SubSeq(fp \o <<"0", "0">>, 1, 2)
  IN IF Cardinality(dots) <= 1 /\ AllDigits(ip) /\ AllDigits(fp)
        /\ Len(ip) + Len(fp) > 0
     THEN Num(100 * DigitsValue(ip) + DigitsValue(f2))
     ELSE NaN

\* StringToNumber of ECMAScript for decimal literals: surrounding white space
\* is ignored, the empty string is 0, anything that is no literal is NaN.
StringToNumber(cs) ==
  LET body == TrimWs(cs)
  IN IF body = <<>> THEN Num(0)
     ELSE IF Head(body) = "-"
          THEN LET u == UnsignedLiteral(Tail(body))
               IN IF u.t = "NaN" THEN NaN ELSE Num(0 - u.n)
          ELSE IF Head(body) = "+" THEN UnsignedLiteral(Tail(body))
          ELSE UnsignedLiteral(body)

\* Number(v)
Number(v) ==
  CASE v.t = "number" -> v
    [] v.t = "NaN" -> NaN
    [] v.t = "undefined" -> NaN
    [] v.t = "null" -> Num(0)
    [] v.t = "boolean" -> Num(100 * v.n)
    [] v.t = "string" -> StringToNumber(v.s)
    [] OTHER -> IF v.s = <<>> THEN Num(0) ELSE NaN

\* isNaN(v)
isNaN(v) == Number(v).t = "NaN"

\* ------------------------------------------------------------------------
\* Objects (rows): functions from column names to values
\* ------------------------------------------------------------------------
EmptyObject == [k \in {} |-> Undefined]

\* row.key
Get(row, key) == IF key \in DOMAIN row THEN row[key] ELSE Undefined

\* { ...row, key: v }
With(row, key, v) ==
  [k \in DOMAIN row \cup {key} |-> IF k = key THEN v ELSE row[k]]

\* ------------------------------------------------------------------------
\* Sentiment Processor (Classifier/Grouper)
\* ------------------------------------------------------------------------
NA == Str(<<"N", "/", "A">>)
ColumnsError == "CSV must contain polarity and subjectivity columns"

Range(seq) == {seq[i] : i \in DOMAIN seq}

\* _.keyBy in place of _.groupBy: one element for each key
GroupBy_keyBy(collection, iteratee) ==
  [k \in {iteratee[collection[i]] : i \in DOMAIN collection} |->
     LET same == SelectSeq(collection, LAMBDA item : iteratee[item] = k)
     IN <<same[Len(same)]>>]

\* _.groupBy(collection, iteratee): the keys that occur, each with its
\* elements in collection order; iteratee is given as the function from the
\* elements to their keys
GroupBy(collection, iteratee) ==
  [k \in {iteratee[collection[i]] : i \in DOMAIN collection} |->
     SelectSeq(collection, LAMBDA item : iteratee[item] = k)]

NoResult ==
  [kind |-> "null", error |-> "", total |-> 0, polarityGroups |-> <<>>,
   subjectivityGroups |-> <<>>, combinedGroups |-> <<>>, rawData |-> <<>>]

ErrorResult(msg) == [NoResult EXCEPT !.kind = "error", !.error = msg]

\* --- src/unnamed/part_001 ---
\* data.every in place of data.some
hasPolarity_every(data) ==
  \A i \in DOMAIN data : Get(data[i], "polarity") # Undefined

hasPolarity(data) == \E i \in DOMAIN data : Get(data[i], "polarity") # Undefined

hasSubjectivity(data) ==
  \E i \in DOMAIN data : Get(data[i], "subjectivity") # Undefined

textOf(row) ==
  Or(Or(Or(Get(row, "sentiment"), Get(row, "Sentiment")), Get(row, "text")),
     Get(row, "Text"))

normalizeRow(row) ==
  With(With(With(row, "polarity", Number(Get(row, "polarity"))),
            "subjectivity", Number(Get(row, "subjectivity"))),
       "sentiment", Or(textOf(row), NA))

keepRow_polarityOnly(row) == ~isNaN(row["polarity"])

keepRow(row) == ~isNaN(row["polarity"]) /\ ~isNaN(row["subjectivity"])

normalizedData(data) ==
  SelectSeq([i \in DOMAIN data |-> normalizeRow(data[i])], keepRow)

polarityKey_inclusive(item) ==
  IF item["polarity"].n >= 10 THEN "Positive"
  ELSE IF item["polarity"].n <= -10 THEN "Negative"
  ELSE "Neutral"

polarityKey(item) ==
  IF item["polarity"].n > 10 THEN "Positive"
  ELSE IF item["polarity"].n < -10 THEN "Negative"
  ELSE "Neutral"

subjectivityKey_inclusive(item) ==
  IF item["subjectivity"].n >= 50 THEN "Subjective" ELSE "Objective"

subjectivityKey(item) ==
  IF item["subjectivity"].n > 50 THEN "Subjective" ELSE "Objective"

combinedKey_zero(item) ==
  LET polarityLabel == IF item["polarity"].n > 0 THEN "Positive"
                       ELSE IF item["polarity"].n < 0 THEN "Negative"
                       ELSE "Neutral"
      subjectivityLabel == IF item["subjectivity"].n > 50 THEN "Subjective"
                           ELSE "Objective"
  IN polarityLabel \o " & " \o subjectivityLabel

combinedKey(item) ==
  LET polarityLabel == IF item["polarity"].n > 10 THEN "Positive"
                       ELSE IF item["polarity"].n < -10 THEN "Negative"
                       ELSE "Neutral"
      subjectivityLabel == IF item["subjectivity"].n > 50 THEN "Subjective"
                           ELSE "Objective"
  IN polarityLabel \o " & " \o subjectivityLabel

\* total taken from the rows given instead of the rows kept
processedData_totalOfData(data) ==
  IF data.null \/ Len(data.rows) = 0 THEN NoResult
  ELSE IF ~hasPolarity(data.rows) \/ ~hasSubjectivity(data.rows)
  THEN ErrorResult(ColumnsError)
  ELSE LET nd == normalizedData(data.rows)
       IN [kind |-> "groups", error |-> "", total |-> Len(data.rows),
           polarityGroups |-> GroupBy(nd, [item \in Range(nd) |-> polarityKey(item)]),
           subjectivityGroups |->
             GroupBy(nd, [item \in Range(nd) |-> subjectivityKey(item)]),
           combinedGroups |-> GroupBy(nd, [item \in Range(nd) |-> combinedKey(item)]),
           rawData |-> nd]

\* data is csvData: [null |-> BOOLEAN, rows |-> sequence of rows]
processedData(data) ==
  IF data.null \/ Len(data.rows) = 0 THEN NoResult
  ELSE IF ~hasPolarity(data.rows) \/ ~hasSubjectivity(data.rows)
  THEN ErrorResult(ColumnsError)
  ELSE LET nd == normalizedData(data.rows)
       IN [kind |-> "groups", error |-> "", total |-> Len(nd),
           polarityGroups |-> GroupBy(nd, [item \in Range(nd) |-> polarityKey(item)]),
           subjectivityGroups |->
             GroupBy(nd, [item \in Range(nd) |-> subjectivityKey(item)]),
           combinedGroups |-> GroupBy(nd, [item \in Range(nd) |-> combinedKey(item)]),
           rawData |-> nd]

\* --- src/sentiment-hub/src/App.jsx ---
hasPolarityApp(data) ==
  \E i \in DOMAIN data :
     Get(data[i], "polarity") # Undefined \/ Get(data[i], "Polarity") # Undefined

hasSubjectivityApp(data) ==
  \E i \in DOMAIN data :
     \/ Get(data[i], "subjectivity") # Undefined
     \/ Get(data[i], "Subjectivity") # Undefined

\* the fallback to 0 left out: Number(row.polarity || row.Polarity)
normalizeRowApp_noZero(row) ==
  With(With(With(row, "polarity",
                 Number(Or(Get(row, "polarity"), Get(row, "Polarity")))),
            "subjectivity",
            Number(Or(Get(row, "subjectivity"), Get(row, "Subjectivity")))),
       "sentiment", Or(textOf(row), NA))

normalizeRowApp(row) ==
  With(With(With(row, "polarity",
                 Number(Or(Or(Get(row, "polarity"), Get(row, "Polarity")), Num(0)))),
            "subjectivity",
            Number(Or(Or(Get(row, "subjectivity"), Get(row, "Subjectivity")), Num(0)))),
       "sentiment", Or(textOf(row), NA))

keepRowApp(row) == ~isNaN(row["polarity"]) /\ ~isNaN(row["subjectivity"])

normalizedDataApp(data) ==
  SelectSeq([i \in DOMAIN data |-> normalizeRowApp(data[i])], keepRowApp)

polarityKeyApp(item) ==
  IF item["polarity"].n > 10 THEN "Positive"
  ELSE IF item["polarity"].n < -10 THEN "Negative"
  ELSE "Neutral"

subjectivityKeyApp(item) ==
  IF item["subjectivity"].n > 50 THEN "Subjective" ELSE "Objective"

combinedKeyApp(item) ==
  LET polarityLabel == IF item["polarity"].n > 10 THEN "Positive"
                       ELSE IF item["polarity"].n < -10 THEN "Negative"
                       ELSE "Neutral"
      subjectivityLabel == IF item["subjectivity"].n > 50 THEN "Subjective"
                           ELSE "Objective"
  IN polarityLabel \o " & " \o subjectivityLabel

processedDataApp(data) ==
  IF data.null \/ Len(data.rows) = 0 THEN NoResult
  ELSE IF ~hasPolarityApp(data.rows) \/ ~hasSubjectivityApp(data.rows)
  THEN ErrorResult(ColumnsError)
  ELSE LET nd == normalizedDataApp(data.rows)
       IN [kind |-> "groups", error |-> "", total |-> Len(nd),
           polarityGroups |-> GroupBy(nd, [item \in Range(nd) |-> polarityKeyApp(item)]),
           subjectivityGroups |->
             GroupBy(nd, [item \in Range(nd) |-> subjectivityKeyApp(item)]),
           combinedGroups |-> GroupBy(nd, [item \in Range(nd) |-> combinedKeyApp(item)]),
           rawData |-> nd]

\* ------------------------------------------------------------------------
\* State
\* ------------------------------------------------------------------------
VARIABLES
  csvData,     \* SentimentHub: [null, rows]
  activeTab,   \* SentimentHub: "upload" or "analysis"
  status,      \* SentimentHub: [null, text] (always null in App.jsx)
  isLoading,   \* CSVUploader: state of the mounted uploader
  batches,     \* one record per handleFile call that is still running
  net,         \* classifier requests in flight: [b, row, text, stage]
  alert,       \* the message the last handler gave to alert(), "" if none
  lastBatch    \* history: the batch whose rows were last given to onDataParsed

vars == <<csvData, activeTab, status, isLoading, batches, net, alert, lastBatch>>

NullData == [null |-> TRUE, rows |-> <<>>]
Data(rows) == [null |-> FALSE, rows |-> rows]
StatusNull == [null |-> TRUE, text |-> ""]
StatusText(text) == [null |-> FALSE, text |-> text]

\* calls: the rows analyzeTextWithGemini was called for; results: what each
\* of these calls ended with; outcome: how each row passed was pushed
FreeBatch ==
  [phase |-> "free", mounted |-> FALSE, data |-> <<>>, i |-> 0,
   updatedRows |-> <<>>, calls |-> <<>>, results |-> <<>>, outcome |-> <<>>]

NoBatch ==
  [valid |-> FALSE, data |-> <<>>, updatedRows |-> <<>>, calls |-> <<>>,
   results |-> <<>>, outcome |-> <<>>]

BatchIds == 1..MaxBatches

Init ==
  /\ csvData = NullData
  /\ activeTab = "upload"
  /\ status = StatusNull
  /\ isLoading = FALSE
  /\ batches = [b \in BatchIds |-> FreeBatch]
  /\ net = {}
  /\ alert = ""
  /\ lastBatch = NoBatch

\* ------------------------------------------------------------------------
\* Files and the CSV Ingestor (Papa.parse with header: true)
\* ------------------------------------------------------------------------
\* A header cell: a column name with white space around it
Key(name) == [lead |-> 0, name |-> name, trail |-> 0]
Padded(lead, name, trail) == [lead |-> lead, name |-> name, trail |-> trail]

\* key.trim()
trim(key) == key.name

\* One row of results.data: the header's keys with the line's values, in
\* column order; a short line leaves its last columns out
PapaRow(header, line) ==
  [j \in 1..(IF Len(line) < Len(header) THEN Len(line) ELSE Len(header)) |->
     <<header[j], line[j]>>]

RECURSIVE CleanFrom(_, _, _)
CleanFrom(raw, j, cleanedRow) ==
  IF j > Len(raw) THEN cleanedRow
  ELSE CleanFrom(raw, j + 1, With(cleanedRow, trim(raw[j][1]), raw[j][2]))

\* Object.keys(row).forEach(key => cleanedRow[key.trim()] = row[key])
cleanRow(raw) == CleanFrom(raw, 1, EmptyObject)

cleanedData(header, lines) ==
  [r \in DOMAIN lines |-> cleanRow(PapaRow(header, lines[r]))]

NoFile == [present |-> FALSE, type |-> ""]
File(type) == [present |-> TRUE, type |-> type]
Files == {NoFile, File("text/plain"), File("text/csv")}

\* sequences of at most n elements of S
RECURSIVE SeqsUpTo(_, _)
SeqsUpTo(S, n) ==
  IF n = 0 THEN {<<>>}
  ELSE LET shorter == SeqsUpTo(S, n - 1)
       IN shorter \cup {Append(q, x) : q \in shorter, x \in S}

\* ------------------------------------------------------------------------
\* Row Enricher (src/unnamed/part_001)
\* ------------------------------------------------------------------------
\* JSON values as JSON.parse returns them
JsonObject(props) == [t |-> "object", props |-> props]
JsonNull == [t |-> "null", props |-> EmptyObject]

\* the end of a call that threw instead of returning a value
Threw == [t |-> "threw", props |-> EmptyObject]

\* The text of the first candidate of a response body: absent, empty, or a
\* text that JSON.parse accepts (with the value it yields) or rejects
NoText == [defined |-> FALSE, empty |-> TRUE, valid |-> FALSE, value |-> JsonNull]
EmptyText == [defined |-> TRUE, empty |-> TRUE, valid |-> FALSE, value |-> JsonNull]
BadText == [defined |-> TRUE, empty |-> FALSE, valid |-> FALSE, value |-> JsonNull]
JsonText(v) == [defined |-> TRUE, empty |-> FALSE, valid |-> TRUE, value |-> v]
EmptyBraces == JsonText(JsonObject(EmptyObject))

Scores(p, s, e) ==
  JsonObject(("polarity" :> p) @@ ("subjectivity" :> s) @@ ("named_entities" :> e))

\* result?.candidates?.[0]?.content?.parts?.[0]?.text || "{}"
replyOf(text) == IF text.defined /\ ~text.empty THEN text ELSE EmptyBraces

\* the catch of analyzeTextWithGemini
parseFallback == Scores(Num(0), Num(0), Arr(<<>>))

\* try { return JSON.parse(reply) } catch { return defaults }
parseReply(text) ==
  LET reply == replyOf(text)
  IN IF reply.valid THEN reply.value ELSE parseFallback

\* the capitalised columns read first: row.Sentiment || row.sentiment ||
\* row.Text || row.text || ''
rowText_capitalFirst(row) ==
  Or(Or(Or(Or(Get(row, "Sentiment"), Get(row, "sentiment")), Get(row, "Text")),
        Get(row, "text")),
     Str(<<>>))

\* row.sentiment || row.Sentiment || row.text || row.Text || ''
rowText(row) == Or(textOf(row), Str(<<>>))

\* the row pushed for a row without text
emptyTextRow(row) ==
  With(With(With(row, "polarity", Num(0)), "subjectivity", Num(0)),
       "named_entities", Arr(<<>>))

\* a catch that pushes the row as it is
catchRow_rowOnly(row) == row

\* the row pushed by the catch of processRowsWithGemini
catchRow(row) ==
  With(With(With(row, "polarity", Num(0)), "subjectivity", Num(0)),
       "named_entities", Arr(<<>>))

\* a merge in which the columns already in the CSV win: {...scores, ...row}
mergeRow_keepExisting(row, geminiResult) ==
  LET put(r, key) == IF key \in DOMAIN r THEN r
                     ELSE With(r, key, Get(geminiResult.props, key))
  IN put(put(put(row, "polarity"), "subjectivity"), "named_entities")

\* the row pushed after a reply
mergeRow(row, geminiResult) ==
  With(With(With(row, "polarity", Get(geminiResult.props, "polarity")),
            "subjectivity", Get(geminiResult.props, "subjectivity")),
       "named_entities", Get(geminiResult.props, "named_entities"))

\* a loop without the !text branch: every row is sent to the classifier
RECURSIVE Advance_noSkip(_, _, _, _)
Advance_noSkip(data, i, updatedRows, outcome) ==
  [done |-> i >= Len(data), i |-> i, updatedRows |-> updatedRows,
   outcome |-> outcome]

\* The loop of processRowsWithGemini from index i (0-based, as in the code)
\* up to its next await: rows without text are pushed and passed over.
RECURSIVE Advance(_, _, _, _)
Advance(data, i, updatedRows, outcome) ==
  IF i >= Len(data)
  THEN [done |-> TRUE, i |-> i, updatedRows |-> updatedRows, outcome |-> outcome]
  ELSE IF ~Truthy(rowText(data[i + 1]))
  THEN Advance(data, i + 1, Append(updatedRows, emptyTextRow(data[i + 1])),
               Append(outcome, "skipped"))
  ELSE [done |-> FALSE, i |-> i, updatedRows |-> updatedRows, outcome |-> outcome]

\* calls started for all remaining rows with text at once, without await
IssuedRows_all(data, i) ==
  SelectSeq([j \in 1..(Len(data) - i) |-> i + j - 1],
            LAMBDA r : Truthy(rowText(data[r + 1])))

\* The rows for which analyzeTextWithGemini is called when the loop reaches
\* row i: that row alone
IssuedRows(data, i) == <<i>>

AnalyzingText(i, n) ==
  "Analyzing row " \o ToString(i + 1) \o " of " \o ToString(n) \o "..."

\* handleDataParsed(data); the uploader is unmounted by the render that
\* follows, so its isLoading is gone and later setIsLoading calls of the
\* batches it started have no effect
handleDataParsed(data, b) ==
  /\ csvData' = Data(data)
  /\ activeTab' = "analysis"
  /\ isLoading' = FALSE
  /\ alert' = ""
  /\ batches' = [c \in BatchIds |->
                   IF c = b THEN FreeBatch
                   ELSE [batches[c] EXCEPT !.mounted = FALSE]]

\* processRowsWithGemini on data continued from row i, with the requests in
\* rest still in flight; when the loop ends the complete callback goes on to
\* onDataParsed and setIsLoading(false) in the same turn of the event loop.
\* The status "Processing rows with Gemini..." set before the loop is
\* replaced in the same turn by the status the loop sets.
Continue(b, data, i, updatedRows, outcome, results, rest) ==
  LET adv == Advance(data, i, updatedRows, outcome)
      rows == IssuedRows(data, adv.i)
  IN IF adv.done
     THEN /\ status' = StatusNull
          /\ handleDataParsed(adv.updatedRows, b)
          /\ net' = rest
          /\ lastBatch' = [valid |-> TRUE, data |-> data,
                           updatedRows |-> adv.updatedRows,
                           calls |-> batches[b].calls, results |-> results,
                           outcome |-> adv.outcome]
     ELSE /\ status' = StatusText(AnalyzingText(adv.i, Len(data)))
          /\ batches' = [batches EXCEPT ![b].phase = "running", ![b].data = data,
                           ![b].i = adv.i,
                           ![b].updatedRows = adv.updatedRows,
                           ![b].outcome = adv.outcome,
                           ![b].results = results,
                           ![b].calls = batches[b].calls \o rows]
          /\ net' = rest \cup {[b |-> b, row |-> rows[k],
                                  text |-> rowText(data[rows[k] + 1]),
                                  stage |-> "fetch"] : k \in DOMAIN rows}
          /\ alert' = ""
          /\ UNCHANGED <<csvData, activeTab, isLoading, lastBatch>>

\* no catch: the exception rejects processRowsWithGemini and with it the
\* complete callback
CallFailed_uncaught(b, req, kind) ==
  /\ batches' = [batches EXCEPT ![b].phase = "rejected"]
  /\ net' = net \ {req}
  /\ alert' = ""
  /\ UNCHANGED <<csvData, activeTab, status, isLoading, lastBatch>>

\* An exception inside the try of processRowsWithGemini: the catch pushes the
\* default row and the loop goes on
CallFailed(b, req, kind) ==
  LET bt == batches[b]
  IN Continue(b, bt.data, bt.i + 1,
              Append(bt.updatedRows, catchRow(bt.data[bt.i + 1])),
              Append(bt.outcome, kind), Append(bt.results, Threw), net \ {req})

\* analyzeTextWithGemini returned geminiResult; reading a property of null
\* throws inside the try
CallReturned(b, req, geminiResult, kind) ==
  LET bt == batches[b]
  IN IF geminiResult.t = "null"
     THEN Continue(b, bt.data, bt.i + 1,
                   Append(bt.updatedRows, catchRow(bt.data[bt.i + 1])),
                   Append(bt.outcome, kind), Append(bt.results, geminiResult),
                   net \ {req})
     ELSE Continue(b, bt.data, bt.i + 1,
                   Append(bt.updatedRows, mergeRow(bt.data[bt.i + 1], geminiResult)),
                   Append(bt.outcome, kind), Append(bt.results, geminiResult),
                   net \ {req})

\* ------------------------------------------------------------------------
\* Inputs
\* ------------------------------------------------------------------------
good == Str(<<"g", "o", "o", "d">>)
bad == Str(<<"b", "a", "d">>)
meh == Str(<<"m", "e", "h">>)
high == Str(<<"h", "i", "g", "h">>)

\* CSV files given to the Gemini application: a header and the lines a file
\* with that header may hold (dynamicTyping: numbers, null for an empty cell)
GeminiFiles ==
  {[header |-> <<Key("id"), Key("Text"), Padded(1, "text", 1)>>,
    lines |-> {<<Num(100), meh, good>>, <<Num(200), Null, Null>>}],
   [header |-> <<Key("sentiment"), Key("Text"), Key("polarity"), Key("Polarity")>>,
    lines |-> {<<Num(0), bad, Num(90), Num(50)>>, <<meh>>}]}

\* the cleanedData of every such file of at most MaxRows rows
GeminiDatasets ==
  UNION {{cleanedData(f.header, lines) : lines \in SeqsUpTo(f.lines, MaxRows)} :
           f \in GeminiFiles}

\* Candidate texts of the classifier's replies
ReplyTexts ==
  {NoText, EmptyText, BadText, JsonText(JsonNull),
   JsonText(Scores(Num(50), Num(80), Arr(<<"Nairobi">>))),
   JsonText(Scores(high, Num(90), Arr(<<>>)))}

\* ------------------------------------------------------------------------
\* CSV Uploader
\* ------------------------------------------------------------------------
FreeIds == {b \in BatchIds : batches[b].phase = "free"}

InvalidFileAlert == "Please upload a valid CSV file"
ParseErrorAlert == "Error parsing CSV file"

\* a guard that tests only whether there is a file: if (!file)
handleFile_anyType(file) ==
  IF ~file.present
  THEN /\ alert' = InvalidFileAlert
       /\ UNCHANGED <<csvData, activeTab, status, isLoading, batches, net, lastBatch>>
  ELSE /\ FreeIds # {}
       /\ LET b == CHOOSE c \in FreeIds : \A d \in FreeIds : c <= d
          IN batches' = [batches EXCEPT ![b].phase = "parsing", ![b].mounted = TRUE]
       /\ isLoading' = TRUE
       /\ alert' = ""
       /\ UNCHANGED <<csvData, activeTab, status, net, lastBatch>>

handleFile(file) ==
  IF ~file.present \/ file.type # "text/csv"
  THEN /\ alert' = InvalidFileAlert
       /\ UNCHANGED <<csvData, activeTab, status, isLoading, batches, net, lastBatch>>
  ELSE /\ FreeIds # {}
       /\ LET b == CHOOSE c \in FreeIds : \A d \in FreeIds : c <= d
          IN batches' = [batches EXCEPT ![b].phase = "parsing", ![b].mounted = TRUE]
       /\ isLoading' = TRUE
       /\ alert' = ""
       /\ UNCHANGED <<csvData, activeTab, status, net, lastBatch>>

\* the file input exists while the uploader is shown and is disabled while
\* isLoading
HandleFileInput ==
  \E file \in Files : csvData.null /\ ~isLoading /\ handleFile(file)

\* the drop zone exists while the uploader is shown
HandleDrop == \E file \in Files : csvData.null /\ handleFile(file)

\* an error callback without setIsLoading(false)
ParseError_keepsLoading ==
  \E b \in BatchIds :
     /\ batches[b].phase = "parsing"
     /\ alert' = ParseErrorAlert
     /\ batches' = [batches EXCEPT ![b] = FreeBatch]
     /\ UNCHANGED <<csvData, activeTab, status, isLoading, net, lastBatch>>

\* Papa.parse calls error
ParseError ==
  \E b \in BatchIds :
     /\ batches[b].phase = "parsing"
     /\ alert' = ParseErrorAlert
     /\ isLoading' = IF batches[b].mounted THEN FALSE ELSE isLoading
     /\ batches' = [batches EXCEPT ![b] = FreeBatch]
     /\ UNCHANGED <<csvData, activeTab, status, net, lastBatch>>

\* Papa.parse calls complete (part_001)
ParseComplete ==
  \E b \in BatchIds :
     /\ batches[b].phase = "parsing"
     /\ \E data \in GeminiDatasets : Continue(b, data, 0, <<>>, <<>>, <<>>, net)

\* fetch rejects
FetchRejected ==
  \E req \in net :
     /\ req.stage = "fetch"
     /\ CallFailed(req.b, req, "failed")

\* fetch resolves with a response that is not ok
FetchNotOk ==
  \E req \in net :
     /\ req.stage = "fetch"
     /\ CallFailed(req.b, req, "failed")

\* fetch resolves with an ok response: response.json() is awaited
FetchOk ==
  \E req \in net :
     /\ req.stage = "fetch"
     /\ net' = (net \ {req}) \cup {[req EXCEPT !.stage = "json"]}
     /\ alert' = ""
     /\ UNCHANGED <<csvData, activeTab, status, isLoading, batches, lastBatch>>

\* response.json() rejects: the body is no JSON
JsonRejected ==
  \E req \in net :
     /\ req.stage = "json"
     /\ CallFailed(req.b, req, "failed")

\* response.json() resolves with a body whose first candidate text is text
JsonResolved ==
  \E req \in net, text \in ReplyTexts :
     /\ req.stage = "json"
     /\ CallReturned(req.b, req, parseReply(text),
                     IF replyOf(text).valid THEN "replied" ELSE "unparsed")

\* ------------------------------------------------------------------------
\* Main App
\* ------------------------------------------------------------------------
\* "Upload New File" is rendered while csvData is set
resetApp ==
  /\ ~csvData.null
  /\ csvData' = NullData
  /\ activeTab' = "upload"
  /\ status' = StatusNull
  /\ alert' = ""
  /\ lastBatch' = NoBatch
  /\ UNCHANGED <<isLoading, batches, net>>

\* ------------------------------------------------------------------------
\* The plain application (src/sentiment-hub/src/App.jsx): the same uploader
\* without the Row Enricher; handleFile, its handlers and the error callback
\* read as in part_001
\* ------------------------------------------------------------------------
padded075 == Str(<<" ", "0", ".", "7", "5", " ">>)
minus05x == Str(<<"-", "0", ".", "5", "x">>)
minus02 == Str(<<"-", ".", "2">>)

ScoredHeader == <<Key("text"), Key("polarity"), Key("subjectivity")>>

\* CSV files given to the plain application: a header and the lines a file
\* with that header may hold
AppFiles ==
  {[header |-> ScoredHeader,
    lines |-> {<<good, Num(50), Num(80)>>, <<bad, Num(-30), Num(20)>>,
               <<meh, Num(0), Num(60)>>}],
   [header |-> ScoredHeader,
    lines |-> {<<good, Num(10), Num(50)>>, <<bad, Num(-10), Num(51)>>,
               <<good, Num(11), Num(49)>>}],
   [header |-> ScoredHeader,
    lines |-> {<<bad, Num(-11), Num(100)>>, <<meh, Num(-10), Num(50)>>,
               <<meh, Num(10), Num(51)>>}],
   [header |-> ScoredHeader,
    lines |-> {<<meh, high, Num(50)>>, <<good, Num(50), Num(80)>>,
               <<good, Num(70), Num(30)>>}],
   [header |-> ScoredHeader,
    lines |-> {<<meh, high, Num(50)>>, <<meh, Num(50)>>,
               <<good, Num(50), Num(80)>>}],
   [header |-> ScoredHeader,
    lines |-> {<<meh, high, Num(50)>>, <<good, Num(50), Num(80)>>,
               <<meh, Null, Null>>}],
   [header |-> ScoredHeader,
    lines |-> {<<meh>>, <<meh, Null, Null>>, <<bad, Num(-30), Num(20)>>}],
   [header |-> <<Key("Sentiment"), Key("Polarity"), Key("Subjectivity")>>,
    lines |-> {<<good, Num(70), Num(90)>>, <<bad, high, Num(20)>>, <<meh>>}],
   [header |-> <<Key("text"), Key("polarity"), Key("Polarity"),
                 Key("subjectivity"), Key("Subjectivity")>>,
    lines |-> {<<good, Num(0), Num(-50), Num(0), Num(90)>>,
               <<bad, Null, Num(20), Null, Num(60)>>,
               <<meh, high, Num(20), Num(30), Num(60)>>}],
   [header |-> <<Padded(1, "polarity", 0), Padded(0, "subjectivity", 2)>>,
    lines |-> {<<Bool(TRUE), padded075>>, <<minus02, Bool(FALSE)>>,
               <<minus05x, Num(10)>>}],
   [header |-> <<Key("text")>>,
    lines |-> {<<good>>}]}

\* the cleanedData of every such file of at most MaxAppRows rows
AppDatasets ==
  UNION {{cleanedData(f.header, lines) : lines \in SeqsUpTo(f.lines, MaxAppRows)} :
           f \in AppFiles}

\* Papa.parse calls complete (App.jsx)
ParseCompleteApp ==
  \E b \in BatchIds :
     /\ batches[b].phase = "parsing"
     /\ \E data \in AppDatasets :
          /\ handleDataParsed(data, b)
          /\ lastBatch' = [valid |-> TRUE, data |-> data, updatedRows |-> data,
                           calls |-> <<>>, results |-> <<>>, outcome |-> <<>>]
          /\ UNCHANGED <<status, net>>

resetAppApp ==
  /\ ~csvData.null
  /\ csvData' = NullData
  /\ activeTab' = "upload"
  /\ alert' = ""
  /\ lastBatch' = NoBatch
  /\ UNCHANGED <<status, isLoading, batches, net>>

NextApp ==
  \/ HandleFileInput
  \/ HandleDrop
  \/ ParseError
  \/ ParseCompleteApp
  \/ resetAppApp

SpecApp == Init /\ [][NextApp]_vars

Next ==
  \/ HandleFileInput
  \/ HandleDrop
  \/ ParseError
  \/ ParseComplete
  \/ FetchRejected
  \/ FetchNotOk
  \/ FetchOk
  \/ JsonRejected
  \/ JsonResolved
  \/ resetApp

Spec == Init /\ [][Next]_vars

\* batch b is in progress: its file is being parsed or a call for one of its
\* rows is outstanding
Active(b) == batches[b].phase # "free"

\* a step in which the parser calls back for batch b or a fetch or a
\* response.json() of batch b settles
Settled(b) ==
  /\ Active(b)
  /\ \/ batches'[b].phase # batches[b].phase
     \/ batches'[b].i # batches[b].i
     \/ {req \in net' : req.b = b} # {req \in net : req.b = b}

\* Papa.parse calls complete or error for every file it was given, and every
\* fetch and every response.json() settles: weak fairness of the steps that
\* settle something of batch b, that is WF_vars(Settled(b)) with
\* ENABLED <<Settled(b)>>_vars written out as Active(b), since such a step is
\* possible exactly while b is active
FairSpec == Spec /\ \A b \in BatchIds : []<>(~Active(b)) \/ []<><<Settled(b)>>_vars

TypeOK ==
  /\ csvData.null \in BOOLEAN
  /\ activeTab \in {"upload", "analysis"}
  /\ isLoading \in BOOLEAN
  /\ \A b \in BatchIds : batches[b].phase \in {"free", "parsing", "running"}

\* ------------------------------------------------------------------------
\* Properties
\* ------------------------------------------------------------------------
Occ(seq, x) == Cardinality({i \in DOMAIN seq : seq[i] = x})
InGroup(groups, k, row) == k \in DOMAIN groups /\ row \in Range(groups[k])

PolarityLabelled(R) ==
  R.kind = "groups" =>
    /\ DOMAIN R.polarityGroups \subseteq {"Positive", "Negative", "Neutral"}
    /\ \A i \in DOMAIN R.rawData :
         LET row == R.rawData[i]
             p == row["polarity"].n
         IN /\ row["polarity"].t = "number"
            /\ (InGroup(R.polarityGroups, "Positive", row) <=> (p > 10))
            /\ (InGroup(R.polarityGroups, "Negative", row) <=> (p < -10))
            /\ (InGroup(R.polarityGroups, "Neutral", row) <=> (p >= -10 /\ p <= 10))

\* C1: every kept row with numeric polarity p is in the polarity group
\* 'Positive' iff p > 0.1, 'Negative' iff p < -0.1 and 'Neutral' otherwise
\* (so 0.1 and -0.1 are 'Neutral'), in both copies of the grouper.
C1_PolarityLabel ==
  /\ PolarityLabelled(processedData(csvData))
  /\ PolarityLabelled(processedDataApp(csvData))

\* rows with polarity 0.1, -0.1 and 0.11 are shown: two 'Neutral', one 'Positive'
C1_Witness ==
  LET R == processedData(csvData)
  IN /\ R.kind = "groups"
     /\ R = processedDataApp(csvData)
     /\ \E i, j, k \in DOMAIN R.rawData :
          /\ R.rawData[i]["polarity"] = Num(10)
          /\ R.rawData[j]["polarity"] = Num(-10)
          /\ R.rawData[k]["polarity"] = Num(11)
          /\ InGroup(R.polarityGroups, "Neutral", R.rawData[i])
          /\ InGroup(R.polarityGroups, "Neutral", R.rawData[j])
          /\ InGroup(R.polarityGroups, "Positive", R.rawData[k])

SubjectivityLabelled(R) ==
  R.kind = "groups" =>
    /\ DOMAIN R.subjectivityGroups \subseteq {"Subjective", "Objective"}
    /\ \A i \in DOMAIN R.rawData :
         LET row == R.rawData[i]
             sv == row["subjectivity"].n
         IN /\ row["subjectivity"].t = "number"
            /\ (InGroup(R.subjectivityGroups, "Subjective", row) <=> (sv > 50))
            /\ (InGroup(R.subjectivityGroups, "Objective", row) <=> (sv <= 50))

\* C2: every kept row with numeric subjectivity s is in the subjectivity
\* group 'Subjective' iff s > 0.5 and 'Objective' otherwise (so 0.5 is
\* 'Objective'), in both copies of the grouper.
C2_SubjectivityLabel ==
  /\ SubjectivityLabelled(processedData(csvData))
  /\ SubjectivityLabelled(processedDataApp(csvData))

\* rows with subjectivity 0.5 and 0.51 are shown: 'Objective' and 'Subjective'
C2_Witness ==
  LET R == processedData(csvData)
  IN /\ R.kind = "groups"
     /\ R = processedDataApp(csvData)
     /\ \E i, j \in DOMAIN R.rawData :
          /\ R.rawData[i]["subjectivity"] = Num(50)
          /\ R.rawData[j]["subjectivity"] = Num(51)
          /\ InGroup(R.subjectivityGroups, "Objective", R.rawData[i])
          /\ InGroup(R.subjectivityGroups, "Subjective", R.rawData[j])

\* a normalized row whose polarity and subjectivity are numbers
Coerced(nrow) == nrow["polarity"].t = "number" /\ nrow["subjectivity"].t = "number"

GroupedFrom(groups, kept) ==
  /\ \A k \in DOMAIN groups : Range(groups[k]) \subseteq Range(kept)
  /\ \A x \in Range(kept) : \E k \in DOMAIN groups : x \in Range(groups[k])

\* R is the result for the rows whose normalized forms are N, and R2 the
\* result for the coercible rows alone
OnlyCoercibleKept(R, N, R2) ==
  LET kept == SelectSeq(N, Coerced)
  IN /\ R.kind = "groups" =>
          /\ R.rawData = kept
          /\ R.total = Len(kept)
          /\ GroupedFrom(R.polarityGroups, kept)
          /\ GroupedFrom(R.subjectivityGroups, kept)
          /\ GroupedFrom(R.combinedGroups, kept)
     /\ R2.kind = "groups" => R = R2

\* C5: rows whose polarity or subjectivity is not coercible to a number are
\* in no part of the result (total, the three groupings, rawData), and the
\* result is the one the other rows of the dataset give alone: they are still
\* classified and counted, and no error result comes from the dropped rows.
C5_NonCoercibleExcluded ==
  LET rows == csvData.rows
  IN /\ OnlyCoercibleKept(
          processedData(csvData),
          [i \in DOMAIN rows |-> normalizeRow(rows[i])],
          processedData(Data(SelectSeq(rows, LAMBDA r : Coerced(normalizeRow(r))))))
     /\ OnlyCoercibleKept(
          processedDataApp(csvData),
          [i \in DOMAIN rows |-> normalizeRowApp(rows[i])],
          processedDataApp(
            Data(SelectSeq(rows, LAMBDA r : Coerced(normalizeRowApp(r))))))

\* three rows are shown, one with a polarity that is no number and one
\* without subjectivity; part_001 keeps one row and App.jsx keeps two
C5_Witness ==
  /\ ~csvData.null
  /\ Len(csvData.rows) = 3
  /\ \E i, j \in DOMAIN csvData.rows :
       /\ Get(csvData.rows[i], "polarity") = high
       /\ Get(csvData.rows[j], "polarity") = Num(50)
       /\ Get(csvData.rows[j], "subjectivity") = Undefined
  /\ processedData(csvData).kind = "groups"
  /\ processedData(csvData).total = 1
  /\ processedDataApp(csvData).kind = "groups"
  /\ processedDataApp(csvData).total = 2

RECURSIVE SumSizes(_, _)
SumSizes(groups, keys) ==
  IF keys = {} THEN 0
  ELSE LET k == CHOOSE x \in keys : TRUE
       IN Len(groups[k]) + SumSizes(groups, keys \ {k})

SizesAddUp(R, N) ==
  R.kind = "groups" =>
    /\ R.total = Cardinality({i \in DOMAIN N : Coerced(N[i])})
    /\ SumSizes(R.polarityGroups, DOMAIN R.polarityGroups) = R.total
    /\ SumSizes(R.subjectivityGroups, DOMAIN R.subjectivityGroups) = R.total
    /\ SumSizes(R.combinedGroups, DOMAIN R.combinedGroups) = R.total

\* C6: whenever the grouper returns groups, total is the number of
\* numerically valid rows and the sizes of the polarity groups, of the
\* subjectivity groups and of the combined groups each add up to total.
C6_GroupSizesSumToTotal ==
  LET rows == csvData.rows
  IN /\ SizesAddUp(processedData(csvData),
                   [i \in DOMAIN rows |-> normalizeRow(rows[i])])
     /\ SizesAddUp(processedDataApp(csvData),
                   [i \in DOMAIN rows |-> normalizeRowApp(rows[i])])

\* a dataset of three rows of which two are valid and fall in two polarity
\* groups and two subjectivity groups
C6_Witness ==
  LET R == processedData(csvData)
  IN /\ R.kind = "groups"
     /\ Len(csvData.rows) = 3
     /\ R.total = 2
     /\ Cardinality(DOMAIN R.polarityGroups) = 2
     /\ Cardinality(DOMAIN R.subjectivityGroups) = 2
     /\ Cardinality(DOMAIN R.combinedGroups) = 2
     /\ processedDataApp(csvData).total = 2

BucketsOf(groups, x) == {k \in DOMAIN groups : x \in Range(groups[k])}

RECURSIVE SumOcc(_, _, _)
SumOcc(groups, keys, x) ==
  IF keys = {} THEN 0
  ELSE LET k == CHOOSE y \in keys : TRUE
       IN Occ(groups[k], x) + SumOcc(groups, keys \ {k}, x)

EveryRowOneBucket(R, N) ==
  R.kind = "groups" =>
    \A i \in DOMAIN N :
       /\ Cardinality(BucketsOf(R.polarityGroups, N[i])) = 1
       /\ Cardinality(BucketsOf(R.subjectivityGroups, N[i])) = 1

\* C7 as stated: every row given to the grouper is in exactly one polarity
\* bucket and in exactly one subjectivity bucket.
C7_Original ==
  LET rows == csvData.rows
  IN /\ EveryRowOneBucket(processedData(csvData),
                          [i \in DOMAIN rows |-> normalizeRow(rows[i])])
     /\ EveryRowOneBucket(processedDataApp(csvData),
                          [i \in DOMAIN rows |-> normalizeRowApp(rows[i])])

KeptRowsOneBucket(R, N) ==
  R.kind = "groups" =>
    \A i \in DOMAIN N :
       IF Coerced(N[i])
       THEN /\ Cardinality(BucketsOf(R.polarityGroups, N[i])) = 1
            /\ Cardinality(BucketsOf(R.subjectivityGroups, N[i])) = 1
            /\ SumOcc(R.polarityGroups, DOMAIN R.polarityGroups, N[i]) = Occ(N, N[i])
            /\ SumOcc(R.subjectivityGroups, DOMAIN R.subjectivityGroups, N[i])
                 = Occ(N, N[i])
       ELSE /\ BucketsOf(R.polarityGroups, N[i]) = {}
            /\ BucketsOf(R.subjectivityGroups, N[i]) = {}

\* C7 (amended): every row whose polarity and subjectivity are coercible to
\* numbers is in exactly one polarity bucket and in exactly one subjectivity
\* bucket, once for each time it occurs; a row that fails the coercion is in
\* no bucket.
C7_KeptRowsOneBucket ==
  LET rows == csvData.rows
  IN /\ KeptRowsOneBucket(processedData(csvData),
                          [i \in DOMAIN rows |-> normalizeRow(rows[i])])
     /\ KeptRowsOneBucket(processedDataApp(csvData),
                          [i \in DOMAIN rows |-> normalizeRowApp(rows[i])])

\* two different valid rows share the 'Positive' bucket and a third row, whose
\* polarity is no number, is in none
C7_Witness ==
  LET R == processedData(csvData)
  IN /\ R.kind = "groups"
     /\ Len(csvData.rows) = 3
     /\ \E i \in DOMAIN csvData.rows : Get(csvData.rows[i], "polarity") = high
     /\ "Positive" \in DOMAIN R.polarityGroups
     /\ Len(R.polarityGroups["Positive"]) = 2
     /\ R.polarityGroups["Positive"][1] # R.polarityGroups["Positive"][2]
     /\ processedDataApp(csvData) = R

PolarityLabels == {"Positive", "Negative", "Neutral"}
SubjectivityLabels == {"Subjective", "Objective"}

CombinedIsIntersection(R) ==
  R.kind = "groups" =>
    /\ DOMAIN R.combinedGroups \subseteq
         {X \o " & " \o Y : X \in PolarityLabels, Y \in SubjectivityLabels}
    /\ Cardinality(DOMAIN R.combinedGroups) <= 6
    /\ \A X \in PolarityLabels, Y \in SubjectivityLabels :
         LET both == SelectSeq(R.rawData,
                               LAMBDA row : /\ InGroup(R.polarityGroups, X, row)
                                            /\ InGroup(R.subjectivityGroups, Y, row))
             k == X \o " & " \o Y
         IN IF both = <<>> THEN k \notin DOMAIN R.combinedGroups
            ELSE k \in DOMAIN R.combinedGroups /\ R.combinedGroups[k] = both
    /\ \A i \in DOMAIN R.rawData :
         LET row == R.rawData[i]
             Scored(p, sv) == row["polarity"] = Num(p) /\ row["subjectivity"] = Num(sv)
         IN /\ Scored(50, 80) => InGroup(R.combinedGroups, "Positive & Subjective", row)
            /\ Scored(-30, 20) => InGroup(R.combinedGroups, "Negative & Objective", row)
            /\ Scored(0, 60) => InGroup(R.combinedGroups, "Neutral & Subjective", row)

\* C8: each combined group 'X & Y' holds exactly the kept rows that are in
\* polarity group X and in subjectivity group Y, there are at most 6 of them,
\* and (0.5,0.8), (-0.3,0.2), (0.0,0.6) are in 'Positive & Subjective',
\* 'Negative & Objective' and 'Neutral & Subjective'.
C8_CombinedGroups ==
  /\ CombinedIsIntersection(processedData(csvData))
  /\ CombinedIsIntersection(processedDataApp(csvData))

\* the three example rows are shown and give the three combined groups
C8_Witness ==
  LET R == processedData(csvData)
  IN /\ R.kind = "groups"
     /\ processedDataApp(csvData) = R
     /\ DOMAIN R.combinedGroups =
          {"Positive & Subjective", "Negative & Objective", "Neutral & Subjective"}
     /\ \E i, j, k \in DOMAIN R.rawData :
          /\ R.rawData[i]["polarity"] = Num(50) /\ R.rawData[i]["subjectivity"] = Num(80)
          /\ R.rawData[j]["polarity"] = Num(-30) /\ R.rawData[j]["subjectivity"] = Num(20)
          /\ R.rawData[k]["polarity"] = Num(0) /\ R.rawData[k]["subjectivity"] = Num(60)

TextColumns == {"sentiment", "Sentiment", "text", "Text"}
HasText(row) == \E k \in TextColumns : Truthy(Get(row, k))

\* row is orig with polarity 0, subjectivity 0 and no named entities
IsDefaultOf(row, orig) ==
  /\ DOMAIN row = DOMAIN orig \cup {"polarity", "subjectivity", "named_entities"}
  /\ row["polarity"] = Num(0)
  /\ row["subjectivity"] = Num(0)
  /\ row["named_entities"] = Arr(<<>>)
  /\ \A k \in DOMAIN orig \ {"polarity", "subjectivity", "named_entities"} :
       row[k] = orig[k]

FailedOutcome(kind) == kind \in {"failed", "unparsed"}

\* C3: a row whose classifier call failed (rejected request, response not
\* ok, body or reply text that cannot be parsed) is pushed with polarity 0,
\* subjectivity 0 and named_entities []; it is in the dataset given to
\* onDataParsed at its own place and the grouper has it in the combined group
\* 'Neutral & Objective'.
C3_FailedRowNeutralObjective ==
  /\ \A b \in BatchIds : \A i \in DOMAIN batches[b].outcome :
       FailedOutcome(batches[b].outcome[i]) =>
         IsDefaultOf(batches[b].updatedRows[i], batches[b].data[i])
  /\ lastBatch.valid =>
       /\ csvData = Data(lastBatch.updatedRows)
       /\ \A i \in DOMAIN lastBatch.outcome :
            FailedOutcome(lastBatch.outcome[i]) =>
              /\ i \in DOMAIN csvData.rows
              /\ IsDefaultOf(csvData.rows[i], lastBatch.data[i])
              /\ processedData(csvData).kind = "groups"
              /\ InGroup(processedData(csvData).combinedGroups,
                         "Neutral & Objective", normalizeRow(csvData.rows[i]))

\* a batch of two rows is shown: one call was rejected or answered with an
\* error, the other was answered with a text that is no JSON
C3_Witness ==
  /\ lastBatch.valid
  /\ csvData = Data(lastBatch.updatedRows)
  /\ \E i, j \in DOMAIN lastBatch.outcome :
       /\ lastBatch.outcome[i] = "failed"
       /\ lastBatch.outcome[j] = "unparsed"
       /\ "polarity" \in DOMAIN lastBatch.data[i]

\* C4: no classifier failure rejects processRowsWithGemini: a running batch
\* always has its next call outstanding with every earlier row pushed, and a
\* delivered batch has one row for each input row, a call for each later row
\* with text, and is what onDataParsed received.
C4_FailureNeverFailsBatch ==
  /\ \A b \in BatchIds :
       /\ batches[b].phase # "rejected"
       /\ batches[b].phase = "running" =>
            /\ batches[b].i < Len(batches[b].data)
            /\ Len(batches[b].updatedRows) = batches[b].i
            /\ \E req \in net : req.b = b
  /\ lastBatch.valid =>
       /\ Len(lastBatch.updatedRows) = Len(lastBatch.data)
       /\ Len(lastBatch.outcome) = Len(lastBatch.data)
       /\ \A j \in DOMAIN lastBatch.data :
            HasText(lastBatch.data[j]) => (j - 1) \in Range(lastBatch.calls)
       /\ csvData = Data(lastBatch.updatedRows)
       /\ activeTab = "analysis"

\* the call for the first row failed, the second row was still sent and
\* answered, and both rows were delivered
C4_Witness ==
  /\ lastBatch.valid
  /\ lastBatch.outcome = <<"failed", "replied">>
  /\ lastBatch.calls = <<0, 1>>
  /\ csvData = Data(lastBatch.updatedRows)
  /\ Len(csvData.rows) = 2

Increasing(calls) == \A k \in 1..(Len(calls) - 1) : calls[k] < calls[k + 1]

\* C9: in each batch the calls are issued in row order, at most one call of
\* the batch is outstanding, and it is the call of the row the loop stands
\* at, every earlier row having been pushed.
C9_SequentialCalls ==
  /\ \A b \in BatchIds :
       LET mine == {req \in net : req.b = b}
           bt == batches[b]
       IN /\ Cardinality(mine) <= 1
          /\ Increasing(bt.calls)
          /\ \A req \in mine :
               /\ bt.calls # <<>>
               /\ req.row = bt.calls[Len(bt.calls)]
               /\ req.row = bt.i
               /\ Len(bt.outcome) = req.row
               /\ Len(bt.updatedRows) = req.row
  /\ Increasing(lastBatch.calls)

\* two batches run at once; one of them has issued its second call after the
\* first was answered, and each has exactly one call outstanding
C9_Witness ==
  \E b, c \in BatchIds :
     /\ b # c
     /\ batches[b].calls = <<0, 1>>
     /\ Len(batches[b].outcome) = 1
     /\ \E req \in net : req.b = b /\ req.row = 1
     /\ \E req \in net : req.b = c

\* C10 as stated: a delivered batch of n rows had n calls, one for each row.
C10_Original ==
  lastBatch.valid =>
    /\ Len(lastBatch.calls) = Len(lastBatch.data)
    /\ \A i \in 0..(Len(lastBatch.data) - 1) : Occ(lastBatch.calls, i) = 1

CallsMatchText(calls, data, upto) ==
  /\ Range(calls) \subseteq 0..(Len(data) - 1)
  /\ \A i \in 0..(Len(data) - 1) : Occ(calls, i) <= 1
  /\ \A i \in 0..(upto - 1) :
       Occ(calls, i) = IF HasText(data[i + 1]) THEN 1 ELSE 0

\* C10 (amended): the classifier is called exactly once for each row that has
\* a text in sentiment, Sentiment, text or Text and never for a row without
\* one; no row is ever sent twice, so a batch of n rows makes at most n calls.
C10_OnceForEachRowWithText ==
  /\ lastBatch.valid =>
       CallsMatchText(lastBatch.calls, lastBatch.data, Len(lastBatch.data))
  /\ \A b \in BatchIds :
       batches[b].phase = "running" =>
         CallsMatchText(batches[b].calls, batches[b].data, batches[b].i + 1)

\* a delivered batch of two rows, the first without text and the second with
\* text: one call, for the second row
C10_Witness ==
  /\ lastBatch.valid
  /\ Len(lastBatch.data) = 2
  /\ ~HasText(lastBatch.data[1])
  /\ HasText(lastBatch.data[2])
  /\ lastBatch.calls = <<1>>

ScoreColumns == {"polarity", "subjectivity", "named_entities"}

\* out is row with nothing but the three score columns set or added
SameButScores(out, row) ==
  /\ DOMAIN out = DOMAIN row \cup ScoreColumns
  /\ \A k \in DOMAIN row \ ScoreColumns : out[k] = row[k]

\* the value the call for row r (0-based) ended with, Threw where none was made
ResultFor(calls, results, r) ==
  IF \E k \in DOMAIN results : calls[k] = r
  THEN results[CHOOSE k \in DOMAIN results : calls[k] = r]
  ELSE Threw

\* the first rows of data were pushed as updatedRows, in order, each with its
\* own columns and the scores of its own reply (the defaults without a reply)
EnrichedFrom(updatedRows, data, calls, results) ==
  /\ Len(updatedRows) <= Len(data)
  /\ \A i \in DOMAIN updatedRows :
       LET res == ResultFor(calls, results, i - 1)
       IN /\ SameButScores(updatedRows[i], data[i])
          /\ \A c \in ScoreColumns :
               updatedRows[i][c] =
                 IF res.t = "object" THEN Get(res.props, c)
                 ELSE IF c = "named_entities" THEN Arr(<<>>) ELSE Num(0)

\* C11: the rows the Row Enricher returns are the input rows in their order,
\* one for each input row; output row i has the columns of input row i with
\* their values, except polarity, subjectivity and named_entities, which are
\* those of the reply to the call for row i, whatever the CSV held there.
C11_EnricherFrame ==
  /\ \A b \in BatchIds :
       EnrichedFrom(batches[b].updatedRows, batches[b].data, batches[b].calls,
                    batches[b].results)
  /\ lastBatch.valid =>
       /\ Len(lastBatch.updatedRows) = Len(lastBatch.data)
       /\ EnrichedFrom(lastBatch.updatedRows, lastBatch.data, lastBatch.calls,
                       lastBatch.results)
       /\ csvData = Data(lastBatch.updatedRows)

\* two rows were returned; the first had polarity 0.9 in the CSV and has the
\* 0.5 of its reply now, with its Text and Polarity columns as they were
C11_Witness ==
  /\ lastBatch.valid
  /\ Len(lastBatch.data) = 2
  /\ Get(lastBatch.data[1], "polarity") = Num(90)
  /\ lastBatch.results[1] = Scores(Num(50), Num(80), Arr(<<"Nairobi">>))
  /\ csvData.rows[1]["polarity"] = Num(50)
  /\ csvData.rows[1]["Polarity"] = Num(50)
  /\ csvData.rows[1]["Text"] = bad
  /\ csvData.rows[1]["named_entities"] = Arr(<<"Nairobi">>)

\* the phase the application shows
Phase ==
  IF ~csvData.null THEN "displaying"
  ELSE IF ~isLoading THEN "idle"
  ELSE IF status.null THEN "uploading"
  ELSE "analyzing"

\* the phase changes of the claim; a file without text to analyze passes
\* through analyzing within one turn
PhaseChanges ==
  {<<"idle", "uploading">>, <<"uploading", "analyzing">>,
   <<"analyzing", "displaying">>, <<"uploading", "displaying">>,
   <<"uploading", "idle">>, <<"displaying", "idle">>}

PhaseStep ==
  /\ Phase' # Phase => <<Phase, Phase'>> \in PhaseChanges
  /\ (csvData.null /\ ~csvData'.null) => isLoading
  /\ (~csvData.null /\ ~csvData'.null) => csvData' = csvData
  /\ (Phase = "uploading" /\ Phase' = "idle") => alert' = ParseErrorAlert
  /\ (Phase = "displaying" /\ Phase' = "idle") => batches' = batches

\* C12 as stated: the phase changes only along idle -> uploading -> analyzing
\* -> displaying, back to idle from uploading by a parse error and from
\* displaying by resetApp; csvData is set only while a file is loading and
\* stays as it is while it is displayed.
C12_Original == [][PhaseStep]_vars

TextOrder == <<"sentiment", "Sentiment", "text", "Text">>

\* a cell that is missing or empty
EmptyValue(v) == v \in {Undefined, Null, Str(<<>>)}

AllTextEmpty(row) == \A k \in DOMAIN TextOrder : EmptyValue(Get(row, TextOrder[k]))

\* the first value among the four text columns, in their order, that is not
\* missing or empty
FirstNonEmpty(row) ==
  IF AllTextEmpty(row) THEN Str(<<>>)
  ELSE LET first == CHOOSE k \in DOMAIN TextOrder :
                      /\ ~EmptyValue(Get(row, TextOrder[k]))
                      /\ \A j \in 1..(k - 1) : EmptyValue(Get(row, TextOrder[j]))
       IN Get(row, TextOrder[first])

\* the rows of data passed so far without any text are not among the calls and
\* were pushed with the defaults
EmptyRowsDefaulted(updatedRows, data, calls) ==
  \A i \in DOMAIN updatedRows :
     AllTextEmpty(data[i]) =>
       /\ (i - 1) \notin Range(calls)
       /\ IsDefaultOf(updatedRows[i], data[i])

\* C13 as stated: the text of every request is the first value of sentiment,
\* Sentiment, text, Text that is not missing or empty; a row in which all four
\* are missing or empty is not sent, is pushed with polarity 0, subjectivity 0
\* and no entities, is in the delivered dataset and in 'Neutral & Objective'.
C13_Original ==
  /\ \A req \in net : req.text = FirstNonEmpty(batches[req.b].data[req.row + 1])
  /\ \A b \in BatchIds :
       EmptyRowsDefaulted(batches[b].updatedRows, batches[b].data, batches[b].calls)
  /\ lastBatch.valid =>
       /\ EmptyRowsDefaulted(lastBatch.updatedRows, lastBatch.data, lastBatch.calls)
       /\ \A i \in DOMAIN lastBatch.data :
            AllTextEmpty(lastBatch.data[i]) =>
              /\ i \in DOMAIN csvData.rows
              /\ InGroup(processedData(csvData).combinedGroups,
                         "Neutral & Objective", normalizeRow(csvData.rows[i]))

NoTruthyText(row) == \A k \in DOMAIN TextOrder : ~Truthy(Get(row, TextOrder[k]))

\* the first truthy value among the four text columns, in their order
FirstTruthy(row) ==
  IF NoTruthyText(row) THEN Str(<<>>)
  ELSE LET first == CHOOSE k \in DOMAIN TextOrder :
                      /\ Truthy(Get(row, TextOrder[k]))
                      /\ \A j \in 1..(k - 1) : ~Truthy(Get(row, TextOrder[j]))
       IN Get(row, TextOrder[first])

\* of the rows of data passed so far, those without a truthy text are not
\* among the calls and were pushed with the defaults, and the others are
\* among the calls
SentIffTruthy(updatedRows, data, calls) ==
  \A i \in DOMAIN updatedRows :
     IF NoTruthyText(data[i])
     THEN (i - 1) \notin Range(calls) /\ IsDefaultOf(updatedRows[i], data[i])
     ELSE (i - 1) \in Range(calls)

\* C13 (amended): the text of every request is the first truthy value of
\* sentiment, Sentiment, text, Text in that order (a missing or empty cell, 0
\* and false are passed over); a row without a truthy value there is not sent,
\* is pushed with polarity 0, subjectivity 0 and no entities, is in the
\* delivered dataset at its place and in 'Neutral & Objective'.
C13_FirstTruthyText ==
  /\ \A req \in net :
       /\ Truthy(req.text)
       /\ req.text = FirstTruthy(batches[req.b].data[req.row + 1])
  /\ \A b \in BatchIds :
       SentIffTruthy(batches[b].updatedRows, batches[b].data, batches[b].calls)
  /\ lastBatch.valid =>
       /\ SentIffTruthy(lastBatch.updatedRows, lastBatch.data, lastBatch.calls)
       /\ \A i \in DOMAIN lastBatch.data :
            NoTruthyText(lastBatch.data[i]) =>
              /\ i \in DOMAIN csvData.rows
              /\ IsDefaultOf(csvData.rows[i], lastBatch.data[i])
              /\ InGroup(processedData(csvData).combinedGroups,
                         "Neutral & Objective", normalizeRow(csvData.rows[i]))

\* the first row of a batch had no text and was pushed with the defaults
\* without a call; the second has Text 'meh' and text 'good', and 'good' is
\* what its request holds
C13_Witness ==
  \E b \in BatchIds :
     /\ batches[b].phase = "running"
     /\ Len(batches[b].data) = 2
     /\ AllTextEmpty(batches[b].data[1])
     /\ IsDefaultOf(batches[b].updatedRows[1], batches[b].data[1])
     /\ batches[b].calls = <<1>>
     /\ Get(batches[b].data[2], "Text") = meh
     /\ Get(batches[b].data[2], "text") = good
     /\ \E req \in net : req.b = b /\ req.row = 1 /\ req.text = good

\* C14 as stated: a row whose call was answered with an ok response, whatever
\* the reply holds, is delivered with a number as polarity and as
\* subjectivity, and the grouper counts it: it is in rawData, so in total and
\* in the groups.
C14_Original ==
  lastBatch.valid =>
    \A i \in DOMAIN lastBatch.outcome :
       lastBatch.outcome[i] = "replied" =>
         /\ csvData.rows[i]["polarity"].t = "number"
         /\ csvData.rows[i]["subjectivity"].t = "number"
         /\ processedData(csvData).kind = "groups"
         /\ normalizeRow(csvData.rows[i]) \in Range(processedData(csvData).rawData)

\* no row of the dataset has a Polarity or a Subjectivity column
LowercaseOnly(rows) ==
  \A i \in DOMAIN rows : DOMAIN rows[i] \cap {"Polarity", "Subjectivity"} = {}

\* every row has a polarity and a subjectivity cell
ScoresDefined(rows) ==
  \A i \in DOMAIN rows :
     /\ Get(rows[i], "polarity") # Undefined
     /\ Get(rows[i], "subjectivity") # Undefined

SameGrouping(R, Q) ==
  /\ R.kind = Q.kind
  /\ R.error = Q.error
  /\ R.total = Q.total
  /\ R.polarityGroups = Q.polarityGroups
  /\ R.subjectivityGroups = Q.subjectivityGroups
  /\ R.combinedGroups = Q.combinedGroups

\* C15 as stated: for a dataset without Polarity and Subjectivity columns the
\* two copies of the grouper give the same error or the same total and groups.
C15_Original ==
  (~csvData.null /\ LowercaseOnly(csvData.rows)) =>
    SameGrouping(processedData(csvData), processedDataApp(csvData))

\* C15 (amended): the two copies give the same result for a dataset without
\* Polarity and Subjectivity columns in which every row has a polarity and a
\* subjectivity cell, whatever the cells hold.
C15_SameForDefinedLowercase ==
  (~csvData.null /\ LowercaseOnly(csvData.rows) /\ ScoresDefined(csvData.rows)) =>
    /\ SameGrouping(processedData(csvData), processedDataApp(csvData))
    /\ processedData(csvData).rawData = processedDataApp(csvData).rawData

\* three rows are shown, with polarity 'high', 0.5 and an empty cell: both
\* copies drop the first and count the empty cell as 0
C15_Witness ==
  /\ ~csvData.null
  /\ LowercaseOnly(csvData.rows)
  /\ ScoresDefined(csvData.rows)
  /\ Len(csvData.rows) = 3
  /\ \E i, j \in DOMAIN csvData.rows :
       /\ csvData.rows[i]["polarity"] = high
       /\ csvData.rows[j]["polarity"] = Null
  /\ processedData(csvData).kind = "groups"
  /\ processedDataApp(csvData).total = 2

\* the handleFile calls whose file is being parsed or analysed
InProgress == {b \in BatchIds : batches[b].phase # "free"}

\* C16 as stated: at most one batch is in progress at any time, so there is
\* one while isLoading is true and none otherwise, and the requests in flight
\* are those of one batch.
C16_Original ==
  /\ Cardinality(InProgress) <= 1
  /\ isLoading <=> InProgress # {}
  /\ \A q, r \in net : q.b = r.b

\* C17 as stated: while results are displayed the progress status is null.
C17_Original == ~csvData.null => status.null

\* a step that ends batch b otherwise than by a parse error gives its rows
\* enriched to onDataParsed: they are displayed, one for each parsed row
EndsDisplayed(b) ==
  (Active(b) /\ ~Active(b)' /\ alert' # ParseErrorAlert) =>
    /\ lastBatch'.valid
    /\ batches[b].phase = "running" => lastBatch'.data = batches[b].data
    /\ csvData' = Data(lastBatch'.updatedRows)
    /\ Len(csvData'.rows) = Len(lastBatch'.data)
    /\ activeTab' = "analysis"
    /\ ~isLoading'

\* C18: when the parser calls back for every file and every call settles,
\* isLoading becomes false again and every accepted upload finishes; it
\* finishes by a parse error or with its rows displayed, one enriched row for
\* each parsed row.
C18_UploadsFinish ==
  /\ isLoading ~> ~isLoading
  /\ \A b \in BatchIds : Active(b) ~> ~Active(b)
  /\ [][\A b \in BatchIds : EndsDisplayed(b)]_vars

\* an upload of two rows has finished: both calls were answered, the two
\* enriched rows are displayed and isLoading is false
C18_Witness ==
  /\ lastBatch.valid
  /\ lastBatch.outcome = <<"replied", "replied">>
  /\ csvData = Data(lastBatch.updatedRows)
  /\ Len(csvData.rows) = 2
  /\ activeTab = "analysis"
  /\ ~isLoading
  /\ \A b \in BatchIds : ~Active(b)

\* a missing file or one whose type is not 'text/csv' is refused with the alert
RefusalAlerts ==
  \A file \in Files :
     (~file.present \/ file.type # "text/csv") /\ handleFile(file) =>
       alert' = InvalidFileAlert

\* the step of a refusal changes nothing: isLoading is not set, no file is
\* given to the parser, no call is made
RefusalChangesNothing ==
  alert' = InvalidFileAlert =>
    UNCHANGED <<csvData, activeTab, status, isLoading, batches, net, lastBatch>>

\* the step of a parse error ends one file that was being parsed and sets the
\* isLoading of the uploader that accepted it, if that is still shown, to
\* false; onDataParsed is not called
ParseErrorOnlyEndsLoading ==
  alert' = ParseErrorAlert =>
    /\ \E b \in BatchIds :
         /\ batches[b].phase = "parsing"
         /\ batches' = [batches EXCEPT ![b] = FreeBatch]
         /\ isLoading' = IF batches[b].mounted THEN FALSE ELSE isLoading
    /\ UNCHANGED <<csvData, activeTab, status, net, lastBatch>>

\* C19: a refused upload (no file, or a type other than 'text/csv') changes
\* nothing of the state, and a CSV parse error changes nothing but isLoading,
\* which it sets to false: csvData and the active tab stay as they are.
C19_FailedUploadKeepsState ==
  [][RefusalAlerts /\ RefusalChangesNothing /\ ParseErrorOnlyEndsLoading]_vars

\* a file was refused while another was being parsed: isLoading is still
\* true, the other file is still with the parser and nothing is displayed
C19_Witness ==
  /\ alert = InvalidFileAlert
  /\ isLoading
  /\ csvData.null
  /\ activeTab = "upload"
  /\ net = {}
  /\ Cardinality(InProgress) = 1
  /\ \A b \in InProgress : batches[b].phase = "parsing"

\* some row has a value other than undefined in one of the columns cols
SomeRowDefines(rows, cols) ==
  \E i \in DOMAIN rows : \E c \in cols \cap DOMAIN rows[i] :
     rows[i][c] # Undefined

NonEmptyGroups(groups, most) ==
  /\ Cardinality(DOMAIN groups) <= most
  /\ \A k \in DOMAIN groups : Len(groups[k]) >= 1

\* R is the grouper's result for data, whose polarity may stand in one of the
\* columns pcols and whose subjectivity in one of the columns scols
ResultShape(R, data, pcols, scols) ==
  IF data.null \/ Len(data.rows) = 0
  THEN R = NoResult
  ELSE IF ~SomeRowDefines(data.rows, pcols) \/ ~SomeRowDefines(data.rows, scols)
  THEN /\ R = ErrorResult(ColumnsError)
       /\ R.error = "CSV must contain polarity and subjectivity columns"
       /\ R.polarityGroups = <<>> /\ R.subjectivityGroups = <<>>
       /\ R.combinedGroups = <<>>
  ELSE /\ R.kind = "groups"
       /\ R.total = Len(R.rawData)
       /\ R.total <= Len(data.rows)
       /\ NonEmptyGroups(R.polarityGroups, 3)
       /\ NonEmptyGroups(R.subjectivityGroups, 2)
       /\ NonEmptyGroups(R.combinedGroups, 6)

\* C20: the grouper gives no result for a null or empty dataset, the error
\* 'CSV must contain polarity and subjectivity columns' without groups when no
\* row defines polarity or none defines subjectivity (App.jsx reads the
\* capitalised columns as well), and otherwise total, rawData and groups in
\* which every key present has a row: at most 3 polarity keys and 2
\* subjectivity keys.
C20_ResultShape ==
  /\ ResultShape(processedData(csvData), csvData, {"polarity"}, {"subjectivity"})
  /\ ResultShape(processedDataApp(csvData), csvData, {"polarity", "Polarity"},
                 {"subjectivity", "Subjectivity"})

\* one row with a polarity and without subjectivity is shown: both copies
\* give the error
C20_Witness ==
  /\ ~csvData.null
  /\ Len(csvData.rows) = 1
  /\ Get(csvData.rows[1], "polarity") = Num(50)
  /\ Get(csvData.rows[1], "subjectivity") = Undefined
  /\ processedData(csvData).kind = "error"
  /\ processedDataApp(csvData).kind = "error"
  /\ processedData(csvData).error = ColumnsError

====
